---- MODULE Spec2Model ----
(***************************************************************************)
(* Model of the analysis pipeline of paperless-ai: the Ollama adapter      *)
(* (src/services/ollamaService.js) and the custom OpenAI-compatible        *)
(* adapter (src/unnamed/part_000).  One analysis call is a process that    *)
(* moves from await point to await point; the environment (thumbnail       *)
(* store, LLM backend, prompt log) answers each await nondeterministically.*)
(*                                                                         *)
(* Text is modelled as a sequence of lexical tokens, so that JSON.parse,   *)
(* the code-fence regexes, the {...} extraction regex and the sanitizer    *)
(* are computed, not assumed.  A string literal is one token: its inner    *)
(* characters (braces, colons, back-ticks inside a string) are not         *)
(* modelled.                                                               *)
(***************************************************************************)
EXTENDS Integers, Sequences, FiniteSets, TLC

(***************************************************************************)
(* JavaScript values, tagged by type                                       *)
(***************************************************************************)
JUndef == [t |-> "undefined"]
JNull == [t |-> "null"]
JStr(s) == [t |-> "str", s |-> s]
JNum(n) == [t |-> "num", n |-> n]
JBool(b) == [t |-> "bool", b |-> b]
JArr(a) == [t |-> "arr", a |-> a]
\* an object is its list of properties, in insertion order
JObj(p) == [t |-> "obj", p |-> p]

\* a string that is read as text (a backend answer): its tokens
JText(x) == [t |-> "text", x |-> x]

\* JavaScript truthiness (the tests !x, x || null, if (x))
Truthy(v) ==
    CASE v.t = "undefined" -> FALSE
      [] v.t = "text" -> Len(v.x) > 0
      [] v.t = "null" -> FALSE
      [] v.t = "str" -> v.s # ""
      [] v.t = "num" -> v.n # "0"
      [] v.t = "bool" -> v.b
      [] OTHER -> TRUE

\* Array.isArray(v)
IsArray(v) == v.t = "arr"

\* typeof v === 'string'
IsString(v) == v.t \in {"str", "text"}

\* typeof v === 'object' (null is an object for typeof)
IsObjectType(v) == v.t \in {"obj", "arr", "null"}

\* property read v.key on a value that is neither null nor undefined:
\* undefined when v is not an object or has no such property
Prop(v, key) ==
    IF v.t = "obj" /\ \E i \in 1..Len(v.p) : v.p[i].k = key
    THEN v.p[CHOOSE i \in 1..Len(v.p) : v.p[i].k = key].v
    ELSE JUndef

\* v.key throws a TypeError exactly when v is null or undefined
PropThrows(v) == v.t \in {"null", "undefined"}

\* property write: the last value of a key wins, its first position is kept
PutProp(p, key, val) ==
    IF \E i \in 1..Len(p) : p[i].k = key
    THEN [i \in 1..Len(p) |-> IF p[i].k = key THEN [k |-> key, v |-> val] ELSE p[i]]
    ELSE Append(p, [k |-> key, v |-> val])

\* a || null
OrNull(v) == IF Truthy(v) THEN v ELSE JNull

(***************************************************************************)
(* Text as tokens                                                          *)
(***************************************************************************)
Punct(s) == [k |-> "punct", s |-> s]
StrTok(s) == [k |-> "str", s |-> s]
NumTok(s) == [k |-> "num", s |-> s]
LitTok(s) == [k |-> "lit", s |-> s]
\* a bare word: prose, or an unquoted property name
WordTok(s) == [k |-> "word", s |-> s]
\* a code-fence marker: three back-ticks followed by "json" (FenceJson),
\* or three back-ticks alone (FenceBare)
FenceJson == [k |-> "fence", s |-> "json"]
FenceBare == [k |-> "fence", s |-> ""]
\* a single-quoted string literal (not JSON)
SqTok(s) == [k |-> "sq", s |-> s]
\* white space (a newline)
WsTok == [k |-> "ws", s |-> "\n"]

Min(S) == CHOOSE x \in S : \A y \in S : x <= y
Max(S) == CHOOSE x \in S : \A y \in S : x >= y

\* index of the first token at or after i that is not white space
SkipWs(toks, i) ==
    LET rest == {j \in i..Len(toks) : toks[j].k # "ws"}
    IN IF rest = {} THEN Len(toks) + 1 ELSE Min(rest)

ParseFail == [ok |-> FALSE, val |-> JUndef, next |-> 0]

RECURSIVE ParseValue(_, _)
RECURSIVE ParseElems(_, _, _)
RECURSIVE ParseMembers(_, _, _)

\* elements of an array after "[" or ",": a trailing comma is an error
ParseElems(toks, i, acc) ==
    LET r == ParseValue(toks, i)
        j == SkipWs(toks, r.next)
    IN IF ~r.ok \/ j > Len(toks) THEN ParseFail
       ELSE IF toks[j] = Punct(",") THEN ParseElems(toks, j + 1, Append(acc, r.val))
       ELSE IF toks[j] = Punct("]")
            THEN [ok |-> TRUE, val |-> JArr(Append(acc, r.val)), next |-> j + 1]
       ELSE ParseFail

\* members of an object after "{" or ",": the name must be a string literal
ParseMembers(toks, i, acc) ==
    LET a == SkipWs(toks, i)
        c == SkipWs(toks, a + 1)
        r == ParseValue(toks, c + 1)
        j == SkipWs(toks, r.next)
    IN IF a > Len(toks) \/ toks[a].k # "str" THEN ParseFail
       ELSE IF c > Len(toks) \/ toks[c] # Punct(":") THEN ParseFail
       ELSE IF ~r.ok \/ j > Len(toks) THEN ParseFail
       ELSE IF toks[j] = Punct(",")
            THEN ParseMembers(toks, j + 1, PutProp(acc, toks[a].s, r.val))
       ELSE IF toks[j] = Punct("}")
            THEN [ok |-> TRUE, val |-> JObj(PutProp(acc, toks[a].s, r.val)), next |-> j + 1]
       ELSE ParseFail

ParseValue(toks, i0) ==
    LET i == SkipWs(toks, i0)
    IN IF i > Len(toks) THEN ParseFail
       ELSE LET tok == toks[i]
                n == SkipWs(toks, i + 1)
            IN CASE tok.k = "str" -> [ok |-> TRUE, val |-> JStr(tok.s), next |-> i + 1]
                 [] tok.k = "num" -> [ok |-> TRUE, val |-> JNum(tok.s), next |-> i + 1]
                 [] tok.k = "lit" /\ tok.s = "null" ->
                        [ok |-> TRUE, val |-> JNull, next |-> i + 1]
                 [] tok.k = "lit" /\ tok.s = "true" ->
                        [ok |-> TRUE, val |-> JBool(TRUE), next |-> i + 1]
                 [] tok.k = "lit" /\ tok.s = "false" ->
                        [ok |-> TRUE, val |-> JBool(FALSE), next |-> i + 1]
                 [] tok = Punct("[") ->
                        IF n <= Len(toks) /\ toks[n] = Punct("]")
                        THEN [ok |-> TRUE, val |-> JArr(<<>>), next |-> n + 1]
                        ELSE ParseElems(toks, i + 1, <<>>)
                 [] tok = Punct("{") ->
                        IF n <= Len(toks) /\ toks[n] = Punct("}")
                        THEN [ok |-> TRUE, val |-> JObj(<<>>), next |-> n + 1]
                        ELSE ParseMembers(toks, i + 1, <<>>)
                 [] OTHER -> ParseFail

\* JSON.parse(text): one value and nothing but white space after it;
\* ok = FALSE stands for the SyntaxError
JsonParse(toks) ==
    LET r == ParseValue(toks, 1)
    IN IF r.ok /\ SkipWs(toks, r.next) > Len(toks)
       THEN [ok |-> TRUE, val |-> r.val]
       ELSE [ok |-> FALSE, val |-> JUndef]

RECURSIVE JsonStringify(_)
RECURSIVE StringifyElems(_, _)
RECURSIVE StringifyMembers(_, _)

StringifyElems(a, i) ==
    IF i > Len(a) THEN <<>>
    ELSE (IF i > 1 THEN <<Punct(",")>> ELSE <<>>)
         \o JsonStringify(a[i]) \o StringifyElems(a, i + 1)

StringifyMembers(p, i) ==
    IF i > Len(p) THEN <<>>
    ELSE (IF i > 1 THEN <<Punct(",")>> ELSE <<>>)
         \o <<StrTok(p[i].k), Punct(":")>> \o JsonStringify(p[i].v)
         \o StringifyMembers(p, i + 1)

\* JSON.stringify(v) of a value built from null, strings, numbers,
\* booleans, arrays and objects
JsonStringify(v) ==
    CASE v.t = "str" -> <<StrTok(v.s)>>
      [] v.t = "num" -> <<NumTok(v.n)>>
      [] v.t = "bool" -> <<LitTok(IF v.b THEN "true" ELSE "false")>>
      [] v.t = "arr" -> <<Punct("[")>> \o StringifyElems(v.a, 1) \o <<Punct("]")>>
      [] v.t = "obj" -> <<Punct("{")>> \o StringifyMembers(v.p, 1) \o <<Punct("}")>>
      [] OTHER -> <<LitTok("null")>>

(***************************************************************************)
(* Response normalizer of the Ollama adapter                               *)
(***************************************************************************)
\* the fallback document { tags: [], correspondent: null }
Degraded == JObj(<<[k |-> "tags", v |-> JArr(<<>>)], [k |-> "correspondent", v |-> JNull]>>)

\* NormalizeFields without the Array.isArray test: tags taken as parsed
NormalizeFieldsUnchecked(parsed) ==
    JObj(<<[k |-> "tags", v |-> Prop(parsed, "tags")],
           [k |-> "correspondent", v |-> OrNull(Prop(parsed, "correspondent"))],
           [k |-> "title", v |-> OrNull(Prop(parsed, "title"))],
           [k |-> "document_date", v |-> OrNull(Prop(parsed, "document_date"))],
           [k |-> "document_type", v |-> OrNull(Prop(parsed, "document_type"))],
           [k |-> "language", v |-> OrNull(Prop(parsed, "language"))],
           [k |-> "custom_fields", v |-> OrNull(Prop(parsed, "custom_fields"))]>>)

\* the seven-field literal built from a parsed value (ollamaService.js
\* 836-844, 853-861, 888-896)
NormalizeFields(parsed) ==
    JObj(<<[k |-> "tags",
            v |-> IF IsArray(Prop(parsed, "tags")) THEN Prop(parsed, "tags") ELSE JArr(<<>>)],
           [k |-> "correspondent", v |-> OrNull(Prop(parsed, "correspondent"))],
           [k |-> "title", v |-> OrNull(Prop(parsed, "title"))],
           [k |-> "document_date", v |-> OrNull(Prop(parsed, "document_date"))],
           [k |-> "document_type", v |-> OrNull(Prop(parsed, "document_type"))],
           [k |-> "language", v |-> OrNull(Prop(parsed, "language"))],
           [k |-> "custom_fields", v |-> OrNull(Prop(parsed, "custom_fields"))]>>)

\* the five-field literal returned after the sanitization pass
\* (ollamaService.js 907-913): no document_type, no custom_fields
NormalizeSanitized(parsed) ==
    JObj(<<[k |-> "tags",
            v |-> IF IsArray(Prop(parsed, "tags")) THEN Prop(parsed, "tags") ELSE JArr(<<>>)],
           [k |-> "correspondent", v |-> OrNull(Prop(parsed, "correspondent"))],
           [k |-> "title", v |-> OrNull(Prop(parsed, "title"))],
           [k |-> "document_date", v |-> OrNull(Prop(parsed, "document_date"))],
           [k |-> "language", v |-> OrNull(Prop(parsed, "language"))]>>)

\* response.match(/\{[\s\S]*\}/): from the first "{" to the last "}",
\* <<>> when there is no such span (match returns null)
MatchBraces(toks) ==
    LET opens == {i \in 1..Len(toks) : toks[i] = Punct("{")}
        closes == {i \in 1..Len(toks) : toks[i] = Punct("}")}
    IN IF opens = {} \/ closes = {} \/ Min(opens) > Max(closes)
       THEN <<>>
       ELSE SubSeq(toks, Min(opens), Max(closes))

\* is token i a comma followed, after optional white space, by the closer c
CommaBefore(toks, i, c) ==
    /\ toks[i] = Punct(",")
    /\ SkipWs(toks, i + 1) <= Len(toks)
    /\ toks[SkipWs(toks, i + 1)] = c

\* is token i white space between such a comma and its closer
WsAfterComma(toks, i, c) ==
    /\ toks[i].k = "ws"
    /\ \E j \in 1..(i - 1) : CommaBefore(toks, j, c) /\ SkipWs(toks, j + 1) > i

\* .replace(/,\s*}/g, '}') and .replace(/,\s*]/g, ']')
DropTrailingCommas(toks, c) ==
    SelectSeq([i \in 1..Len(toks) |->
                  IF CommaBefore(toks, i, c) \/ WsAfterComma(toks, i, c)
                  THEN [k |-> "drop", s |-> ""] ELSE toks[i]],
              LAMBDA tok : tok.k # "drop")

\* is token i a name ([a-zA-Z0-9_]+, quoted or not) followed, after
\* optional white space, by a colon
NameBeforeColon(toks, i) ==
    /\ toks[i].k \in {"str", "sq", "word", "num", "lit"}
    /\ toks[i].s # ""
    /\ SkipWs(toks, i + 1) <= Len(toks)
    /\ toks[SkipWs(toks, i + 1)] = Punct(":")

\* .replace(/(['"])?([a-zA-Z0-9_]+)(['"])?\s*:/g, '"$2":')
QuoteNames(toks) ==
    SelectSeq([i \in 1..Len(toks) |->
                  IF NameBeforeColon(toks, i) THEN StrTok(toks[i].s)
                  ELSE IF toks[i].k = "ws"
                          /\ \E j \in 1..(i - 1) :
                                NameBeforeColon(toks, j) /\ SkipWs(toks, j + 1) > i
                       THEN [k |-> "drop", s |-> ""]
                  ELSE toks[i]],
              LAMBDA tok : tok.k # "drop")

\* _sanitizeJsonString
SanitizeJsonString(toks) ==
    QuoteNames(DropTrailingCommas(DropTrailingCommas(toks, Punct("}")), Punct("]")))

\* _parseResponse: never throws; the "path" field records which branch
\* produced the document
ParseResponse(toks) ==
    LET jsonStr == MatchBraces(toks)
        first == JsonParse(jsonStr)
        second == JsonParse(SanitizeJsonString(jsonStr))
    IN IF jsonStr = <<>> THEN [doc |-> Degraded, path |-> "nomatch"]
       ELSE IF first.ok THEN [doc |-> NormalizeFields(first.val), path |-> "extracted"]
       ELSE IF second.ok
            THEN [doc |-> NormalizeSanitized(second.val), path |-> "sanitized"]
       ELSE [doc |-> Degraded, path |-> "unparseable"]

Threw(step, msg) ==
    [thrown |-> TRUE, step |-> step, msg |-> msg, doc |-> JUndef, path |-> "throw"]
Returned(doc, path) ==
    [thrown |-> FALSE, step |-> "none", msg |-> "", doc |-> doc, path |-> path]

\* _processOllamaResponse(responseData), r = responseData.response
ProcessOllamaResponse(r) ==
    IF ~Truthy(r) THEN Threw("response", "No response data from Ollama API")
    ELSE IF r.t = "text"
         THEN LET parsed == JsonParse(r.x)
              IN IF parsed.ok /\ ~PropThrows(parsed.val)
                 THEN Returned(NormalizeFields(parsed.val), "direct")
                 ELSE Returned(ParseResponse(r.x).doc, ParseResponse(r.x).path)
    ELSE IF IsObjectType(r) THEN Returned(NormalizeFields(r), "object")
    ELSE Threw("response", "Unexpected response format from Ollama")

(***************************************************************************)
(* Restriction enforcement of the Ollama adapter                           *)
(***************************************************************************)
\* list.includes(v) for a list of names
Includes(list, v) == v.t = "str" /\ \E i \in 1..Len(list) : list[i] = v.s

\* FilterTags that also drops repeated tags (the valid tags passed through
\* a Set)
FilterTagsDeduplicated(tags, existingTags) ==
    SelectSeq([i \in 1..Len(tags) |->
                  IF Includes(existingTags, tags[i]) /\ ~\E j \in 1..(i - 1) : tags[j] = tags[i]
                  THEN tags[i] ELSE JUndef],
              LAMBDA tag : tag # JUndef)

RECURSIVE SpliceLoop(_, _, _)
\* remove the invalid tags in place while walking the list by index
SpliceLoop(tags, i, existingTags) ==
    IF i > Len(tags) THEN tags
    ELSE IF Includes(existingTags, tags[i])
         THEN SpliceLoop(tags, i + 1, existingTags)
         ELSE SpliceLoop(SubSeq(tags, 1, i - 1) \o SubSeq(tags, i + 1, Len(tags)),
                         i + 1, existingTags)

\* FilterTags written as splice-in-a-forEach: the element after a removed
\* one is skipped
FilterTagsSplicing(tags, existingTags) == SpliceLoop(tags, 1, existingTags)

\* tags.filter(tag => existingTags.includes(tag))
FilterTags(tags, existingTags) ==
    SelectSeq(tags, LAMBDA tag : Includes(existingTags, tag))

\* parsedResponse.tags.filter(...) throws a TypeError when tags is not an
\* array (ollamaService.js 150-152)
EnforceThrows(doc, options, existingTags) ==
    /\ Truthy(options.restrictToExistingTags)
    /\ Len(existingTags) > 0
    /\ ~IsArray(Prop(doc, "tags"))

\* parsedResponse.tags.length throws a TypeError when tags is null or
\* undefined (ollamaService.js 171, 225)
MissingDataCheckThrows(doc) == PropThrows(Prop(doc, "tags"))

\* EnforceTags that filters whenever an allow-list is supplied, whatever
\* the flag says
EnforceTagsIgnoringFlag(doc, options, existingTags) ==
    IF Len(existingTags) > 0 /\ IsArray(Prop(doc, "tags"))
    THEN JObj(PutProp(doc.p, "tags", JArr(FilterTags(Prop(doc, "tags").a, existingTags))))
    ELSE doc

\* ollamaService.js 150-160
EnforceTags(doc, options, existingTags) ==
    IF /\ Truthy(options.restrictToExistingTags)
       /\ Len(existingTags) > 0
       /\ IsArray(Prop(doc, "tags"))
    THEN JObj(PutProp(doc.p, "tags", JArr(FilterTags(Prop(doc, "tags").a, existingTags))))
    ELSE doc

\* EnforceDocumentType that resets the wrong field: correspondent instead
\* of document_type
EnforceDocumentTypeNullsCorrespondent(doc, options, existingDocumentTypesList) ==
    IF /\ Truthy(options.restrictToExistingDocumentTypes)
       /\ Len(existingDocumentTypesList) > 0
       /\ Truthy(Prop(doc, "document_type"))
       /\ ~Includes(existingDocumentTypesList, Prop(doc, "document_type"))
    THEN JObj(PutProp(doc.p, "correspondent", JNull))
    ELSE doc

\* ollamaService.js 162-168
EnforceDocumentType(doc, options, existingDocumentTypesList) ==
    IF /\ Truthy(options.restrictToExistingDocumentTypes)
       /\ Len(existingDocumentTypesList) > 0
       /\ Truthy(Prop(doc, "document_type"))
       /\ ~Includes(existingDocumentTypesList, Prop(doc, "document_type"))
    THEN JObj(PutProp(doc.p, "document_type", JNull))
    ELSE doc

\* the enforcement step as a whole (ollamaService.js 148-168)
Enforce(doc, options, existingTags, existingDocumentTypesList) ==
    EnforceDocumentType(EnforceTags(doc, options, existingTags),
                        options, existingDocumentTypesList)

(***************************************************************************)
(* Response handling of the custom adapter                                 *)
(***************************************************************************)
\* drop every token equal to f, and white space that directly follows it
RemoveFence(toks, f) ==
    SelectSeq([i \in 1..Len(toks) |->
                  IF toks[i] = f \/ (toks[i].k = "ws" /\ i > 1 /\ toks[i - 1] = f)
                  THEN [k |-> "drop", s |-> ""] ELSE toks[i]],
              LAMBDA tok : tok.k # "drop")

\* String.prototype.trim
Trim(toks) ==
    LET solid == {i \in 1..Len(toks) : toks[i].k # "ws"}
    IN IF solid = {} THEN <<>> ELSE SubSeq(toks, Min(solid), Max(solid))

\* jsonContent.replace(FENCE_JSON \n?, "").replace(FENCE \n?, "").trim()
StripFences(toks) == Trim(RemoveFence(RemoveFence(toks, FenceJson), FenceBare))

\* part_000 258-276: strip, parse, validate; the document is the parsed
\* value itself
ProcessCustomContent(content) ==
    LET parsed == JsonParse(StripFences(content))
    IN IF ~parsed.ok THEN Threw("parsing", "Invalid JSON response from API")
       ELSE IF \/ ~Truthy(parsed.val)
               \/ ~IsArray(Prop(parsed.val, "tags"))
               \/ ~(Prop(parsed.val, "correspondent").t = "str")
            THEN Threw("validation",
                       "Invalid response structure: missing tags array or correspondent string")
       ELSE Returned(parsed.val, "direct")

(***************************************************************************)
(* Inputs: call arguments and backend answers                              *)
(***************************************************************************)
\* longest tag list the modelled backend returns
MaxTags == 2

\* names the modelled backend may return as tags
ModelTagNames == {"Appliance", "Dishwasher"}

\* the allow-lists a caller may supply (existing names in the DMS)
TagLists == {<<>>, <<"Appliance", "Electronics">>}
CorrespondentLists == {<<>>, <<"Acme">>}
DocumentTypeLists == {<<>>, <<"Invoice">>}

\* a restriction flag of the options record: true, false or not given
FlagValues == {JBool(TRUE), JBool(FALSE), JUndef}

OptionsSet ==
    [restrictToExistingTags : FlagValues,
     restrictToExistingCorrespondents : FlagValues,
     restrictToExistingDocumentTypes : FlagValues]

DocIds == {"d1"}

Adapters == {"ollama", "custom"}

\* arguments of analyzeDocument(content, existingTags,
\* existingCorrespondentList, existingDocumentTypesList, id, customPrompt,
\* options)
DocumentCalls ==
    [adapter : Adapters,
     entry : {"analyzeDocument"},
     existingTags : TagLists,
     existingCorrespondentList : CorrespondentLists,
     existingDocumentTypesList : DocumentTypeLists,
     id : DocIds,
     customPrompt : {JNull, JStr("custom prompt")},
     options : OptionsSet]

\* analyzePlayground(content, prompt) takes no lists, id or options
PlaygroundCalls ==
    [adapter : Adapters,
     entry : {"analyzePlayground"},
     existingTags : {<<>>},
     existingCorrespondentList : {<<>>},
     existingDocumentTypesList : {<<>>},
     id : {"none"},
     customPrompt : {JNull},
     options : {[restrictToExistingTags |-> JUndef,
                 restrictToExistingCorrespondents |-> JUndef,
                 restrictToExistingDocumentTypes |-> JUndef]}]

TagSeqs == UNION {[1..n -> {JStr(x) : x \in ModelTagNames}] : n \in 0..MaxTags}

\* a well-formed AnalysisResult with the given tags
BaseResult(tags) ==
    JObj(<<[k |-> "title", v |-> JStr("Manual X")],
           [k |-> "correspondent", v |-> JStr("Acme")],
           [k |-> "tags", v |-> JArr(tags)],
           [k |-> "document_type", v |-> JStr("Invoice")],
           [k |-> "document_date", v |-> JStr("2024-01-01")],
           [k |-> "language", v |-> JStr("en")],
           [k |-> "custom_fields", v |-> JNull]>>)

WithField(obj, key, val) == JObj(PutProp(obj.p, key, val))

ScenarioTags == <<JStr("Appliance"), JStr("Dishwasher")>>

\* well-formed results: every tag list, and one field at a time varied
\* over its legal values (a string, the empty string, null, a mapping)
FieldVariants ==
    {WithField(BaseResult(ScenarioTags), "correspondent", v) :
        v \in {JNull, JStr(""), JStr("Other")}}
    \cup {WithField(BaseResult(ScenarioTags), "document_type", v) :
            v \in {JNull, JStr("Manual")}}
    \cup {WithField(BaseResult(ScenarioTags), "title", JStr("")),
          WithField(BaseResult(ScenarioTags), "custom_fields", JObj(<<>>))}

WellFormedResults == {BaseResult(ts) : ts \in TagSeqs} \cup FieldVariants

\* JSON values that parse but are off schema
OffSchemaValues ==
    {JNull,
     JArr(<<>>),
     JObj(<<[k |-> "tags", v |-> JStr("Dishwasher")],
            [k |-> "correspondent", v |-> JNum("7")]>>),
     JObj(<<[k |-> "tags", v |-> JArr(<<JStr("Dishwasher"), JNum("7")>>)],
            [k |-> "document_type", v |-> JNum("7")]>>),
     JObj(<<[k |-> "product", v |-> JStr("Dishwasher")]>>),
     JObj(<<[k |-> "tags", v |-> JArr(<<JStr("Dishwasher")>>)],
            [k |-> "correspondent", v |-> JStr("Acme")]>>)}

Fenced(toks) == <<FenceJson, WsTok>> \o toks \o <<WsTok, FenceBare>>

\* the text with a comma inserted before its last token
TrailingComma(toks) ==
    SubSeq(toks, 1, Len(toks) - 1) \o <<Punct(","), WsTok, toks[Len(toks)]>>

GarbageText == <<WordTok("I"), WordTok("cannot"), WordTok("read"), WordTok("this")>>
GarbageBraces == <<WordTok("see"), Punct("{"), WordTok("oops"), Punct("}")>>

\* texts a backend may answer with
AnswerTexts ==
    {JsonStringify(r) : r \in WellFormedResults \cup OffSchemaValues}
    \cup {Fenced(JsonStringify(r)) : r \in FieldVariants \cup {BaseResult(<<>>)}}
    \cup {TrailingComma(JsonStringify(BaseResult(ts))) : ts \in {<<>>, ScenarioTags}}
    \cup {GarbageText, GarbageBraces, <<>>}

\* what the Ollama HTTP call can end in: the request is rejected (network
\* error, timeout, error status), the reply has no data, or the reply's
\* data carries some "response" field
OllamaAnswers ==
    {[kind |-> "reject", response |-> JUndef], [kind |-> "nodata", response |-> JUndef]}
    \cup {[kind |-> "data", response |-> r] :
            r \in {JText(x) : x \in AnswerTexts}
                  \cup {JUndef, JNum("7"), BaseResult(ScenarioTags), JArr(<<>>)}}

\* what the chat-completion call can end in: rejected, or a reply whose
\* choices[0].message.content is a text or missing, with or without usage
CustomAnswers ==
    {[kind |-> "reject", content |-> JUndef, usage |-> FALSE],
     [kind |-> "data", content |-> JText(JsonStringify(BaseResult(ScenarioTags))),
      usage |-> FALSE]}
    \cup {[kind |-> "data", content |-> c, usage |-> TRUE] :
            c \in {JText(x) : x \in AnswerTexts} \cup {JUndef}}

\* Each answer of the Ollama backend with what _processOllamaResponse makes
\* of its response field (the normalizer reads nothing but the answer, so
\* its outcome is computed once per answer)
OllamaReplies ==
    {[answer |-> a, processed |-> ProcessOllamaResponse(a.response)] : a \in OllamaAnswers}

\* Each answer of the chat-completion backend with what the parsing and
\* validation of part_000 258-276 make of its content
CustomReplies ==
    {[answer |-> a,
      processed |-> IF a.content.t = "text" THEN ProcessCustomContent(a.content.x)
                    ELSE Threw("response", "Invalid API response structure")] :
        a \in CustomAnswers}

(***************************************************************************)
(* Prompt assembly                                                         *)
(***************************************************************************)
\* a system prompt is a sequence of pieces: fixed text, a restriction
\* section listing names, the rendered custom-field template, or the
\* %CUSTOMFIELDS% placeholder
Seg(name) == [k |-> "text", s |-> name]
Placeholder == [k |-> "placeholder", s |-> "%CUSTOMFIELDS%"]
Section(kind, names) == [k |-> kind, names |-> names]
CustomFieldsSeg(fields) == [k |-> "custom_fields", fields |-> fields]

\* config.mustHavePrompt as the configuration is loaded
MustHaveTemplate == <<Seg("must have"), Placeholder, Seg("must have end")>>

\* process.env.CUSTOM_FIELDS: two custom-field specifications, text that
\* does not parse, JSON without a custom_fields list
CustomFieldsValues == {"fieldsA", "fieldsB", "unparseable", "no_list"}

\* customFieldsObj.custom_fields.forEach throws a TypeError
CustomFieldsThrows(env) == env = "no_list"

\* customFieldsStr: the template rendered from the field names; a value that
\* does not parse is replaced by { custom_fields: [] }
CustomFieldsStr(env) ==
    CustomFieldsSeg(CASE env = "fieldsA" -> <<"amount">>
                      [] env = "fieldsB" -> <<"due date">>
                      [] OTHER -> <<>>)

\* str.replace('%CUSTOMFIELDS%', by): the first occurrence only
ReplaceCustomFields(str, by) ==
    LET hits == {i \in 1..Len(str) : str[i] = Placeholder}
    IN IF hits = {} THEN str
       ELSE SubSeq(str, 1, Min(hits) - 1) \o <<by>> \o SubSeq(str, Min(hits) + 1, Len(str))

\* config values the prompt assembly reads
ConfigSet ==
    [restrictToExistingTags : {"yes", "no"},
     restrictToExistingCorrespondents : {"yes", "no"},
     restrictToExistingDocumentTypes : {"yes", "no"},
     useExistingData : {"yes", "no"}]

\* options.flag !== undefined ? options.flag : config.flag === 'yes'
HasRestriction(flag, configValue) ==
    IF flag # JUndef THEN Truthy(flag) ELSE configValue = "yes"

\* the pre-existing data block decided by a plain if instead of an else-if:
\* the reference listing follows the restriction block
RestrictionSectionsWithReference(c, cfg) ==
    LET t == HasRestriction(c.options.restrictToExistingTags, cfg.restrictToExistingTags)
        reference == IF cfg.useExistingData = "yes"
                     THEN <<[k |-> "preexisting", tags |-> c.existingTags,
                             correspondents |-> c.existingCorrespondentList,
                             types |-> c.existingDocumentTypesList]>>
                     ELSE <<>>
    IN IF t
       THEN <<Seg("restrictions")>>
            \o (IF Len(c.existingTags) > 0
                THEN <<Section("tags", c.existingTags)>> ELSE <<>>)
            \o <<Seg("end restrictions")>> \o reference
       ELSE reference

\* the restriction block, or the pre-existing data block, or nothing
RestrictionSections(c, cfg) ==
    LET t == HasRestriction(c.options.restrictToExistingTags, cfg.restrictToExistingTags)
        r == HasRestriction(c.options.restrictToExistingCorrespondents,
                            cfg.restrictToExistingCorrespondents)
        d == HasRestriction(c.options.restrictToExistingDocumentTypes,
                            cfg.restrictToExistingDocumentTypes)
    IN IF t \/ r \/ d
       THEN <<Seg("restrictions")>>
            \o (IF t /\ Len(c.existingTags) > 0
                THEN <<Section("tags", c.existingTags)>> ELSE <<>>)
            \o (IF r /\ Len(c.existingCorrespondentList) > 0
                THEN <<Section("correspondents", c.existingCorrespondentList)>> ELSE <<>>)
            \o (IF d /\ Len(c.existingDocumentTypesList) > 0
                THEN <<Section("document_types", c.existingDocumentTypesList)>> ELSE <<>>)
            \o <<Seg("end restrictions")>>
       ELSE IF cfg.useExistingData = "yes"
            THEN <<[k |-> "preexisting", tags |-> c.existingTags,
                    correspondents |-> c.existingCorrespondentList,
                    types |-> c.existingDocumentTypesList]>>
            ELSE <<>>

\* a text of n characters
Chars(n) == [i \in 1..n |-> i]

\* Math.ceil(length / 4)
EstimateTokens(str) == (Len(str) + 3) \div 4

\* the default maxTokens of _validateAndTruncateExternalApiData (the
\* literal 500), in units of 250 tokens
ExternalTokenCeiling == 2

\* options.externalApiData: absent, empty, below the ceiling, at the
\* ceiling and above it
ExternalDataValues ==
    {JUndef, JText(<<>>), JText(Chars(3)), JText(Chars(4 * ExternalTokenCeiling)),
     JText(Chars(4 * ExternalTokenCeiling + 1))}

\* OllamaService._validateAndTruncateExternalApiData, as the value its
\* promise resolves to
ValidateAndTruncateExternalApiData(apiData, maxTokens) ==
    IF ~Truthy(apiData) THEN JNull
    ELSE IF EstimateTokens(apiData.x) > maxTokens
         THEN JText(SubSeq(apiData.x, 1, maxTokens * 4))
         ELSE apiData

\* serviceUtils.calculateTokens, given by its contract: the heuristic
\* estimate
CalculateTokens(str) == (Len(str) + 3) \div 4

\* serviceUtils.truncateToTokenLimit, given by its contract: the longest
\* prefix whose estimate fits, the empty text for a budget of zero or less
TruncateToTokenLimit(str, maxUnits) ==
    IF maxUnits <= 0 THEN <<>>
    ELSE SubSeq(str, 1, Max({n \in 0..Len(str) : CalculateTokens(SubSeq(str, 1, n)) <= maxUnits}))

\* CustomOpenAIService._validateAndTruncateExternalApiData
ValidateAndTruncateCustom(apiData, maxTokens) ==
    IF ~Truthy(apiData) THEN JNull
    ELSE IF CalculateTokens(apiData.x) > maxTokens
         THEN JText(TruncateToTokenLimit(apiData.x, maxTokens))
         ELSE apiData

\* a promise, as the value of an async call that is not awaited
Promise(v) == [t |-> "promise", of |-> v]

\* the text a template literal makes of a value: a text is itself, a
\* promise is "[object Promise]"
Interpolate(v) == IF v.t = "text" THEN v ELSE JStr("[object Promise]")

\* the labeled section appended when validatedExternalApiData is truthy
ExternalSection(validated) ==
    IF Truthy(validated)
    THEN <<[k |-> "external", label |-> "Additional context from external API:",
            body |-> Interpolate(validated)]>>
    ELSE <<>>

\* validatedExternalApiData where the prompt is assembled: the Ollama
\* builder does not await the validation, the custom adapter does
ValidatedExternalApiData(adapter, apiData) ==
    IF ~Truthy(apiData) THEN JNull
    ELSE IF adapter = "ollama"
         THEN Promise(ValidateAndTruncateExternalApiData(apiData, ExternalTokenCeiling))
         ELSE ValidateAndTruncateCustom(apiData, ExternalTokenCeiling)

\* a restriction placeholder of older prompts
LegacyPlaceholder(kind) == [k |-> "legacy", s |-> kind]

\* RestrictionPromptService.processRestrictionsInPrompt, given by its
\* contract: it works on the assembled prompt and replaces the legacy
\* placeholders by the names, leaving every other piece as it is
ProcessRestrictionsInPrompt(prompt, existingTags, correspondentList, existingDocumentTypes) ==
    [i \in 1..Len(prompt) |->
        IF prompt[i] = LegacyPlaceholder("tags") THEN Section("legacy tags", existingTags)
        ELSE IF prompt[i] = LegacyPlaceholder("correspondents")
             THEN Section("legacy correspondents", correspondentList)
        ELSE prompt[i]]

\* process.env.SYSTEM_PROMPT + '\n\n', with or without a legacy placeholder
SystemPromptText(kind) ==
    IF kind = "legacy" THEN <<Seg("system prompt"), LegacyPlaceholder("tags")>>
    ELSE <<Seg("system prompt")>>

\* the predefined-tags text appended under USE_PROMPT_TAGS when no
\* restriction is on
PromptTagsSection(c, penv) ==
    LET t == HasRestriction(c.options.restrictToExistingTags, penv.cfg.restrictToExistingTags)
        r == HasRestriction(c.options.restrictToExistingCorrespondents,
                            penv.cfg.restrictToExistingCorrespondents)
        d == HasRestriction(c.options.restrictToExistingDocumentTypes,
                            penv.cfg.restrictToExistingDocumentTypes)
    IN IF penv.usePromptTags = "yes" /\ ~(t \/ r \/ d)
       THEN <<Seg("match these tags"), Seg("specialPromptPreDefinedTags")>>
       ELSE <<>>

\* the must-have step written as an assignment: the prompt so far is lost
ReplaceByMustHave(prompt, rendered) == rendered

\* systemPrompt += config.mustHavePrompt
AppendMustHave(prompt, rendered) == prompt \o rendered

\* what surrounds a prompt assembly: the configuration, the external data
\* of the call's options, USE_PROMPT_TAGS and the kind of SYSTEM_PROMPT
PromptEnvs ==
    {e \in [cfg : ConfigSet, externalApiData : ExternalDataValues,
            usePromptTags : {"yes", "no"}, systemPrompt : {"plain", "legacy"}] :
        \/ e.externalApiData = JUndef /\ e.usePromptTags = "no" /\ e.systemPrompt = "plain"
        \/ /\ e.cfg.restrictToExistingCorrespondents = "no"
           /\ e.cfg.restrictToExistingDocumentTypes = "no"
           /\ e.cfg.useExistingData = "no"
           /\ \/ e.externalApiData = JUndef
              \/ e.usePromptTags = "no" /\ e.systemPrompt = "plain"}

\* The system prompt of analyzeDocument and what the assembly leaves in
\* config.mustHavePrompt.  Ollama with a custom prompt renders the template
\* into the prompt only; every other path assigns the rendered template
\* back to the configuration.  The custom adapter assembles the default
\* prompt first and then overrides it with the custom prompt.
BuildSystemPrompt(c, penv, mhp, env) ==
    LET rendered == ReplaceCustomFields(mhp, CustomFieldsStr(env))
        base == SystemPromptText(penv.systemPrompt)
                \o (IF c.adapter = "ollama" THEN <<Seg("schema")>> ELSE <<>>)
                \o RestrictionSections(c, penv.cfg)
        default ==
            ProcessRestrictionsInPrompt(AppendMustHave(base, rendered), c.existingTags,
                                        c.existingCorrespondentList,
                                        c.existingDocumentTypesList)
            \o ExternalSection(ValidatedExternalApiData(c.adapter, penv.externalApiData))
            \o PromptTagsSection(c, penv)
    IN IF CustomFieldsThrows(env)
       THEN [threw |-> TRUE, prompt |-> <<>>, mustHavePrompt |-> mhp]
       ELSE IF Truthy(c.customPrompt)
            THEN [threw |-> FALSE,
                  prompt |-> <<Seg("custom prompt")>> \o rendered,
                  mustHavePrompt |-> IF c.adapter = "ollama" THEN mhp ELSE rendered]
            ELSE [threw |-> FALSE, prompt |-> default, mustHavePrompt |-> rendered]

\* the calls of the thumbnail race
Procs == {1, 2}

\* no cache file
NoFile == [exists |-> FALSE, chunks |-> {}]

(***************************************************************************)
(* The analysis call as a process                                          *)
(***************************************************************************)
VARIABLES
    aiProvider,     \* config.aiProvider
    client,         \* CustomOpenAIService.client: "null" or "constructed"
    constructions,  \* how many times new OpenAI(...) has run
    status,         \* what checkStatus or generateText returned, "none" otherwise
    cache,          \* document ids whose thumbnail file exists
    stores,         \* per document id, how many times its thumbnail was written
    thumbnail,      \* how this call's thumbnail step went, "none" before it
    pc,             \* where the call in progress is suspended
    call,           \* the arguments of the call in progress
    requests,       \* requests this call has sent to the LLM backend
    promptTokens,   \* the token estimate of this call's prompt, 0 before it is made
    answer,         \* what the backend answered to this call
    failure,        \* the step of this call that failed, "none" if none did
    normalized,     \* parsedResponse as the normalizer returned it
    path,           \* the normalizer branch that produced it
    parsedResponse, \* parsedResponse after the enforcement step
    result,         \* the value the call returned
    raised          \* the call rejected: an exception reached the caller

\* prompt assembly on its own
VARIABLES
    customFields,   \* process.env.CUSTOM_FIELDS
    mustHavePrompt, \* config.mustHavePrompt
    ppc,            \* "idle", "built" (a prompt was assembled) or "threw"
    promptCall,     \* the arguments the prompt is assembled for
    promptEnv,      \* the configuration and environment it is assembled under
    systemPrompt    \* the assembled system prompt

\* two calls racing on one document's thumbnail file
VARIABLES
    raceAdapter,    \* the service both calls are made on
    source,         \* what the thumbnail fetch gives for the document
    thumbFile,      \* the cache file: whether it exists and its chunks written
    racePc,         \* per call, where its thumbnail step is suspended
    raceData        \* per call, the thumbnailData it holds

callVars ==
    <<aiProvider, client, constructions, status, cache, stores, thumbnail, pc, call,
      requests, promptTokens, answer, failure, normalized, path, parsedResponse, result,
      raised>>

promptVars == <<customFields, mustHavePrompt, ppc, promptCall, promptEnv, systemPrompt>>

raceVars == <<raceAdapter, source, thumbFile, racePc, raceData>>

\* the document content on its way to the backend
VARIABLES
    contentCall,       \* the call: adapter, entry point, content, budget
    cpc,               \* "idle", "sent" (request made), "returned"
    truncatedContent,  \* the content after truncation
    userMessage,       \* the user message of the request
    contentResult      \* what the call returned

contentVars == <<contentCall, cpc, truncatedContent, userMessage, contentResult>>

\* a run of the import script
VARIABLES
    importEnv,         \* the version run and which credentials are set
    ipc,               \* "start", "types", "tags", "exit"
    next,              \* index of the next item of the list being worked on
    sent,              \* the create requests sent, in order
    printed,           \* the line printed for each request
    exitStatus         \* -1 while running, then the status of the process

importVars == <<importEnv, ipc, next, sent, printed, exitStatus>>

vars == <<callVars, promptVars, raceVars, contentVars, importVars>>

\* no content call in progress
NoContentCall ==
    [adapter |-> "none", entry |-> "none", content |-> <<>>, maxLength |-> "unset",
     availableTokens |-> 0]

ContentQuiet ==
    /\ contentCall = NoContentCall
    /\ cpc = "idle"
    /\ truncatedContent = <<>>
    /\ userMessage = <<>>
    /\ contentResult = [kind |-> "none", truncated |-> JUndef]

\* the import script not run
ImportQuiet ==
    /\ importEnv = [version |-> "none", url |-> FALSE, token |-> FALSE]
    /\ ipc = "exit"
    /\ next = 1
    /\ sent = <<>>
    /\ printed = <<>>
    /\ exitStatus = -1

NoOptions ==
    [restrictToExistingTags |-> JUndef,
     restrictToExistingCorrespondents |-> JUndef,
     restrictToExistingDocumentTypes |-> JUndef]

NoCall == [adapter |-> "none", entry |-> "none", existingTags |-> <<>>,
           existingCorrespondentList |-> <<>>, existingDocumentTypesList |-> <<>>,
           id |-> "none", customPrompt |-> JNull, options |-> NoOptions]

NoAnswer == [kind |-> "none"]

NoResult == [document |-> JUndef, metrics |-> "none", error |-> JUndef]

\* the catch block of every analysis entry point (ollamaService.js 188-195,
\* 239-246; part_000 283-290, 406-413)
ErrorResult(msg) == [document |-> Degraded, metrics |-> "null", error |-> JStr(msg)]

\* the return statement of the success path; metrics "zero" is
\* {promptTokens: 0, completionTokens: 0, totalTokens: 0}, "usage" the
\* usage object mapped from the reply
SuccessResult(doc, metrics) == [document |-> doc, metrics |-> metrics, error |-> JUndef]

\* no call in progress on a service that has served none
CallQuiet ==
    /\ client = "null"
    /\ constructions = 0
    /\ status = "none"
    /\ cache = {}
    /\ stores = [d \in DocIds |-> 0]
    /\ thumbnail = "none"
    /\ pc = "idle"
    /\ call = NoCall
    /\ requests = 0
    /\ promptTokens = 0
    /\ answer = NoAnswer
    /\ failure = "none"
    /\ normalized = JUndef
    /\ path = "none"
    /\ parsedResponse = JUndef
    /\ result = NoResult
    /\ raised = FALSE

NoPromptEnv ==
    [cfg |-> [restrictToExistingTags |-> "no", restrictToExistingCorrespondents |-> "no",
              restrictToExistingDocumentTypes |-> "no", useExistingData |-> "no"],
     externalApiData |-> JUndef, usePromptTags |-> "no", systemPrompt |-> "plain"]

\* config and environment as loaded, no prompt being assembled
PromptQuiet ==
    /\ customFields = "fieldsA"
    /\ mustHavePrompt = MustHaveTemplate
    /\ ppc = "idle"
    /\ promptCall = NoCall
    /\ promptEnv = NoPromptEnv
    /\ systemPrompt = <<>>

\* no thumbnail race in progress
RaceQuiet ==
    /\ raceAdapter = "none"
    /\ source = "none"
    /\ thumbFile = NoFile
    /\ racePc = [p \in Procs |-> "idle"]
    /\ raceData = [p \in Procs |-> "none"]

Init ==
    /\ aiProvider \in {"ollama", "custom"}
    /\ CallQuiet
    /\ PromptQuiet
    /\ RaceQuiet
    /\ ContentQuiet
    /\ ImportQuiet

\* the given step threw: the call ends in its catch block with the
\* exception's message
Caught(step, msg) ==
    /\ failure' = step
    /\ result' = ErrorResult(msg)
    /\ pc' = "done"

\* initialize() that builds a client on every call under the custom
\* provider
ConstructsAlways(c) == aiProvider = "custom"

\* the test of CustomOpenAIService.initialize: a client is built when there
\* is none and the provider is 'custom'
Constructs(c) == c = "null" /\ aiProvider = "custom"

\* CustomOpenAIService.initialize
Initialize(c) == IF Constructs(c) THEN "constructed" ELSE c

\* process.env.CUSTOM_FIELDS as the prompt assembly may find it: a JSON
\* object with a custom_fields list, text that does not parse (caught, the
\* list defaults to empty), or JSON without a custom_fields list
\* (custom_fields.forEach throws a TypeError)
CustomFieldsEnv == {"valid", "unparseable", "no_list"}

\* the outcome of serviceUtils token counting, which is not part of the
\* adapters: it returns or throws
TokenCounting == {"ok", "throws"}

\* A caller invokes analyzeDocument or analyzePlayground.  The custom
\* adapter initializes its client first and gives up without one.
\* analyzePlayground then counts the prompt's tokens, analyzeDocument
\* turns to the thumbnail cache.  The Ollama service is the one in use
\* when config.aiProvider names it; the custom service can be called under
\* any provider.
Start(c) ==
    /\ pc = "idle"
    /\ c.adapter = "ollama" => aiProvider = "ollama"
    /\ call' = c
    /\ client' = IF c.adapter = "custom" THEN Initialize(client) ELSE client
    /\ constructions' = IF c.adapter = "custom" /\ Constructs(client)
                        THEN constructions + 1 ELSE constructions
    /\ IF c.adapter = "custom" /\ client' = "null"
       THEN Caught("client",
                   IF c.entry = "analyzeDocument"
                   THEN "Custom OpenAI client not initialized"
                   ELSE "Custom OpenAI client not initialized - missing API key")
       ELSE /\ pc' = IF c.entry = "analyzeDocument" THEN "thumbnail" ELSE "tokens"
            /\ UNCHANGED <<failure, result>>
    /\ UNCHANGED <<aiProvider, status, cache, stores, thumbnail, requests, promptTokens,
                   answer, normalized, path, parsedResponse, raised>>
    /\ UNCHANGED <<promptVars, raceVars, contentVars, importVars>>

\* a backend helper that posts again when the first post fails
CallBackendWithRetry(n) == n + 2

\* the requests sent once the backend helper has been called with n sent
\* before: _callOllamaAPI posts once, chat.completions.create is called once
CallBackend(n) == n + 1

\* Number(config.tokenLimit), in units of a quarter of the limit
TokenLimit == 4

\* Number(config.responseTokens), in the same units
ResponseTokens == 2

\* the response tokens the Ollama adapter expects (the literal 1024), in the
\* same units
ExpectedResponseTokens == 2

\* token estimates of an assembled prompt: one that leaves room under the
\* limit and one that does not
PromptTokenCounts == {1, 3}

\* maxTokens - reservedTokens of the custom adapter
AvailableTokens(tokens) == TokenLimit - (tokens + ResponseTokens)

\* _calculateNumCtx
CalculateNumCtx(promptTokenCount, expectedResponseTokens) ==
    Min({promptTokenCount + expectedResponseTokens, TokenLimit})

\* analyzePlayground up to the backend request: count the prompt's tokens
\* (serviceUtils), compute the context size (Ollama) or the tokens left for
\* the content (custom), then send.  Neither adapter tests the result.
PlaygroundPrompt(tc, tokens) ==
    /\ pc = "tokens"
    /\ IF tc = "throws"
       THEN Caught("tokens", "token counting failed") /\ UNCHANGED <<requests, promptTokens>>
       ELSE /\ promptTokens' = tokens
            /\ requests' = CallBackend(requests)
            /\ pc' = "backend"
            /\ UNCHANGED <<failure, result>>
    /\ UNCHANGED <<aiProvider, client, constructions, status, cache, stores, thumbnail,
                   call, answer, normalized, path, parsedResponse, raised>>
    /\ UNCHANGED <<promptVars, raceVars, contentVars, importVars>>

\* a cache test that never finds the file
CacheHitNever(id, files) == FALSE

\* fs.access(cachePath) succeeds: the document's thumbnail file exists
CacheHit(id, files) == id \in files

\* what the thumbnail fetch can give when the file is not cached
ThumbnailFetches == {"image", "none", "throws"}

\* what writing the cache file can do
FileWrites == {"ok", "throws"}

\* analyzeDocument from the thumbnail cache up to the backend request.
\* Cached: nothing is fetched.  Not cached: the fetch throws (caught at the
\* top), finds no image (Ollama returns from the helper; the custom
\* adapter goes on to writeFile(path, null), which throws), or gives an
\* image that is written to the cache.  Then the prompt is assembled and
\* its tokens are estimated; the custom adapter gives up when no token is
\* left for the content, the Ollama adapter only caps num_ctx; the request
\* is sent.
ThumbnailAndPrompt(fetch, write, cf, tokens) ==
    /\ pc = "thumbnail"
    /\ LET hit == CacheHit(call.id, cache)
           fetchThrows == ~hit /\ fetch = "throws"
           writeThrows ==
               /\ ~hit
               /\ \/ fetch = "image" /\ write = "throws"
                  \/ fetch = "none" /\ call.adapter = "custom"
           stored == ~hit /\ fetch = "image" /\ write = "ok"
       IN /\ cache' = IF stored THEN cache \cup {call.id} ELSE cache
          /\ stores' = IF stored THEN [stores EXCEPT ![call.id] = @ + 1] ELSE stores
          /\ thumbnail' = IF hit THEN "hit"
                          ELSE IF fetch = "throws" THEN "threw"
                          ELSE IF fetch = "none" THEN "absent"
                          ELSE IF stored THEN "stored" ELSE "unwritten"
          /\ IF fetchThrows
             THEN /\ Caught("thumbnail", "thumbnail fetch failed")
                  /\ UNCHANGED <<requests, promptTokens>>
             ELSE IF writeThrows
                  THEN /\ Caught("thumbnail", "thumbnail write failed")
                       /\ UNCHANGED <<requests, promptTokens>>
             ELSE IF cf = "no_list"
                  THEN /\ Caught("prompt",
                                 "Cannot read properties of undefined (reading 'forEach')")
                       /\ UNCHANGED <<requests, promptTokens>>
             ELSE /\ promptTokens' = tokens
                  /\ IF call.adapter = "custom" /\ AvailableTokens(tokens) <= 0
                     THEN /\ Caught("budget",
                                    "Token limit exceeded: prompt too large for available token limit")
                          /\ UNCHANGED requests
                     ELSE /\ requests' = CallBackend(requests)
                          /\ pc' = "backend"
                          /\ UNCHANGED <<failure, result>>
    /\ UNCHANGED <<aiProvider, client, constructions, status, call, answer, normalized,
                   path, parsedResponse, raised>>
    /\ UNCHANGED <<promptVars, raceVars, contentVars, importVars>>

\* what appending to the prompt log can do
LogWrites == {"ok", "throws"}

\* The Ollama backend answers: _callOllamaAPI returns or throws, the
\* response is normalized and, in analyzeDocument, the restrictions are
\* enforced and the prompt log is written (w); the call returns the
\* document with zero metrics.  A text that no parsing attempt could read
\* is recorded as a failure of the parsing step.
OllamaBackend(reply, w) ==
    /\ pc = "backend"
    /\ call.adapter = "ollama"
    /\ answer' = reply.answer
    /\ LET ans == reply.answer
           out == reply.processed
           enforced == Enforce(out.doc, call.options, call.existingTags,
                               call.existingDocumentTypesList)
           unread == IF out.path \in {"nomatch", "unparseable"} THEN "parsing" ELSE "none"
       IN IF ans.kind = "reject"
          THEN /\ Caught("backend", "request failed")
               /\ UNCHANGED <<normalized, path, parsedResponse>>
          ELSE IF ans.kind = "nodata"
               THEN /\ Caught("backend", "Invalid response from Ollama API")
                    /\ UNCHANGED <<normalized, path, parsedResponse>>
          ELSE IF out.thrown
               THEN /\ Caught(out.step, out.msg)
                    /\ UNCHANGED <<normalized, path, parsedResponse>>
          ELSE /\ normalized' = out.doc
               /\ path' = out.path
               /\ IF call.entry = "analyzePlayground"
                  THEN /\ parsedResponse' = out.doc
                       /\ IF MissingDataCheckThrows(out.doc)
                          THEN Caught("enforcement", "Cannot read properties of null")
                          ELSE /\ failure' = unread
                               /\ pc' = "done"
                               /\ result' = SuccessResult(out.doc, "zero")
                  ELSE IF EnforceThrows(out.doc, call.options, call.existingTags)
                       THEN /\ parsedResponse' = out.doc
                            /\ Caught("enforcement", "parsedResponse.tags.filter is not a function")
                       ELSE /\ parsedResponse' = enforced
                            /\ IF MissingDataCheckThrows(enforced)
                               THEN Caught("enforcement", "Cannot read properties of null")
                               ELSE IF w = "throws"
                                    THEN Caught("log", "prompt log failed")
                                    ELSE /\ failure' = unread
                                         /\ pc' = "done"
                                         /\ result' = SuccessResult(enforced, "zero")
    /\ UNCHANGED <<aiProvider, client, constructions, status, cache, stores, thumbnail,
                   call, requests, promptTokens, raised>>
    /\ UNCHANGED <<promptVars, raceVars, contentVars, importVars>>

\* The chat-completion backend answers (both entry points of the custom
\* adapter): a reply without content, or without usage, throws; the
\* content is stripped, parsed and validated, and returned as it is.
CustomBackend(reply) ==
    /\ pc = "backend"
    /\ call.adapter = "custom"
    /\ answer' = reply.answer
    /\ LET ans == reply.answer
           out == reply.processed
       IN IF ans.kind = "reject"
          THEN /\ Caught("backend", "request failed")
               /\ UNCHANGED <<normalized, path, parsedResponse>>
          ELSE IF ~Truthy(ans.content)
               THEN /\ Caught("response", "Invalid API response structure")
                    /\ UNCHANGED <<normalized, path, parsedResponse>>
          ELSE IF ~ans.usage
               THEN /\ Caught("response",
                              "Cannot read properties of undefined (reading 'total_tokens')")
                    /\ UNCHANGED <<normalized, path, parsedResponse>>
          ELSE IF out.thrown
               THEN /\ Caught(out.step, out.msg)
                    /\ UNCHANGED <<normalized, path, parsedResponse>>
          ELSE /\ normalized' = out.doc
               /\ path' = out.path
               /\ parsedResponse' = out.doc
               /\ failure' = "none"
               /\ pc' = "done"
               /\ result' = SuccessResult(out.doc, "usage")
    /\ UNCHANGED <<aiProvider, client, constructions, status, cache, stores, thumbnail,
                   call, requests, promptTokens, raised>>
    /\ UNCHANGED <<promptVars, raceVars, contentVars, importVars>>

\* the caller has the result and the call's locals are gone; the service
\* is ready for the next call
Finish ==
    /\ pc = "done"
    /\ pc' = "idle"
    /\ call' = NoCall
    /\ requests' = 0
    /\ promptTokens' = 0
    /\ answer' = NoAnswer
    /\ failure' = "none"
    /\ normalized' = JUndef
    /\ path' = "none"
    /\ parsedResponse' = JUndef
    /\ result' = NoResult
    /\ raised' = FALSE
    /\ status' = "none"
    /\ thumbnail' = "none"
    /\ UNCHANGED <<aiProvider, client, constructions, cache, stores>>
    /\ UNCHANGED <<promptVars, raceVars, contentVars, importVars>>

\* what the chat-completion call of checkStatus and generateText can end
\* in: rejected, a reply without message content, a reply with content
PingAnswers == {"reject", "nocontent", "content"}

\* CustomOpenAIService.checkStatus and generateText: initialize, give up
\* without a client, else send one request.  checkStatus turns every
\* failure into {status: 'error'}; generateText rethrows it.
StatusOrText(entry, ans) ==
    /\ pc = "idle"
    /\ call' = [NoCall EXCEPT !.adapter = "custom", !.entry = entry]
    /\ client' = Initialize(client)
    /\ constructions' = IF Constructs(client) THEN constructions + 1 ELSE constructions
    /\ requests' = IF client' = "null" THEN requests ELSE CallBackend(requests)
    /\ LET failed == client' = "null" \/ ans # "content"
       IN /\ failure' = IF client' = "null" THEN "client"
                         ELSE IF ans = "reject" THEN "backend"
                         ELSE IF ans = "nocontent" THEN "response" ELSE "none"
          /\ status' = IF entry = "checkStatus"
                        THEN (IF failed THEN "error" ELSE "ok")
                        ELSE (IF failed THEN "none" ELSE "text")
          /\ raised' = (entry = "generateText" /\ failed)
    /\ pc' = "done"
    /\ UNCHANGED <<aiProvider, cache, stores, thumbnail, promptTokens, answer, normalized,
                   path, parsedResponse, result>>
    /\ UNCHANGED <<promptVars, raceVars, contentVars, importVars>>

Next ==
    \/ \E c \in DocumentCalls \cup PlaygroundCalls : Start(c)
    \/ \E tc \in TokenCounting, tokens \in PromptTokenCounts : PlaygroundPrompt(tc, tokens)
    \/ \E f \in ThumbnailFetches, w \in FileWrites, cf \in CustomFieldsEnv,
          tokens \in PromptTokenCounts :
          ThumbnailAndPrompt(f, w, cf, tokens)
    \/ \E reply \in OllamaReplies, w \in LogWrites : OllamaBackend(reply, w)
    \/ \E reply \in CustomReplies : CustomBackend(reply)
    \/ \E entry \in {"checkStatus", "generateText"}, ans \in PingAnswers :
          StatusOrText(entry, ans)
    \/ Finish

Spec == Init /\ [][Next]_vars

(***************************************************************************)
(* Prompt assembly as a process: calls of analyzeDocument follow one       *)
(* another while the environment's custom-field specification changes      *)
(***************************************************************************)
PromptInit ==
    /\ aiProvider = "custom"
    /\ CallQuiet
    /\ RaceQuiet
    /\ ContentQuiet
    /\ ImportQuiet
    /\ customFields \in CustomFieldsValues
    /\ mustHavePrompt = MustHaveTemplate
    /\ ppc = "idle"
    /\ promptCall = NoCall
    /\ promptEnv = NoPromptEnv
    /\ systemPrompt = <<>>

\* the operator saves a new custom-field specification
SetCustomFields(v) ==
    /\ ppc = "idle"
    /\ v # customFields
    /\ customFields' = v
    /\ UNCHANGED <<mustHavePrompt, ppc, promptCall, promptEnv, systemPrompt>>
    /\ UNCHANGED <<callVars, raceVars, contentVars, importVars>>

\* analyzeDocument assembles its system prompt under the configuration and
\* environment penv
BuildPrompt(c, penv) ==
    /\ ppc = "idle"
    /\ promptEnv' = penv
    /\ LET built == BuildSystemPrompt(c, penv, mustHavePrompt, customFields)
       IN /\ ppc' = IF built.threw THEN "threw" ELSE "built"
          /\ systemPrompt' = built.prompt
          /\ mustHavePrompt' = built.mustHavePrompt
    /\ promptCall' = c
    /\ UNCHANGED customFields
    /\ UNCHANGED <<callVars, raceVars, contentVars, importVars>>

\* a call of analyzeDocument, with any arguments under any environment
AssemblePrompt ==
    /\ ppc = "idle"
    /\ \E c \in DocumentCalls, penv \in PromptEnvs : BuildPrompt(c, penv)

\* the call is over and its prompt is gone
DiscardPrompt ==
    /\ ppc \in {"built", "threw"}
    /\ ppc' = "idle"
    /\ promptCall' = NoCall
    /\ promptEnv' = NoPromptEnv
    /\ systemPrompt' = <<>>
    /\ UNCHANGED <<customFields, mustHavePrompt>>
    /\ UNCHANGED <<callVars, raceVars, contentVars, importVars>>

PromptNext ==
    \/ \E v \in CustomFieldsValues : SetCustomFields(v)
    \/ AssemblePrompt
    \/ DiscardPrompt

PromptSpec == PromptInit /\ [][PromptNext]_vars

(***************************************************************************)
(* The thumbnail step of two concurrent analyzeDocument calls for the same *)
(* document, interleaved at their await points                             *)
(***************************************************************************)
\* the chunks writeFile writes a thumbnail in
MaxChunks == 2

\* what paperlessService.getThumbnailImage gives for the document: its
\* image, null, or an exception
Sources == {"image", "null", "throws"}

\* where a call is: at a step, the chunk to write next when writing
At(step) == [at |-> step, n |-> 0]

\* writeFile opening the file for exclusive creation
OpenExclusiveThrows(exists) == exists

\* fs.writeFile opens with flag 'w': the file is created or truncated,
\* whether or not it exists
OpenThrows(exists) == FALSE

RaceInit ==
    /\ raceAdapter \in Adapters
    /\ aiProvider = raceAdapter
    /\ CallQuiet
    /\ PromptQuiet
    /\ ContentQuiet
    /\ ImportQuiet
    /\ source \in Sources
    /\ thumbFile = NoFile
    /\ racePc = [p \in Procs |-> At("access")]
    /\ raceData = [p \in Procs |-> "none"]

\* await fs.access(cachePath): cached, or on to the fetch
Access(p) ==
    /\ racePc[p].at = "access"
    /\ racePc' = [racePc EXCEPT ![p] = IF thumbFile.exists THEN At("proceeds")
                                       ELSE At("fetch")]
    /\ UNCHANGED <<raceAdapter, source, thumbFile, raceData>>
    /\ UNCHANGED <<callVars, promptVars, contentVars, importVars>>

\* await paperlessService.getThumbnailImage(id): Ollama returns from the
\* helper when there is no image, the custom adapter goes on
Fetch(p) ==
    /\ racePc[p].at = "fetch"
    /\ raceData' = [raceData EXCEPT ![p] = IF source = "throws" THEN "none" ELSE source]
    /\ racePc' = [racePc EXCEPT ![p] =
                     IF source = "throws" THEN At("failed")
                     ELSE IF source = "null" /\ raceAdapter = "ollama" THEN At("proceeds")
                     ELSE At("mkdir")]
    /\ UNCHANGED <<raceAdapter, source, thumbFile>>
    /\ UNCHANGED <<callVars, promptVars, contentVars, importVars>>

\* await fs.mkdir(dir, { recursive: true }): no error when the directory
\* exists
Mkdir(p) ==
    /\ racePc[p].at = "mkdir"
    /\ racePc' = [racePc EXCEPT ![p] = At("open")]
    /\ UNCHANGED <<raceAdapter, source, thumbFile, raceData>>
    /\ UNCHANGED <<callVars, promptVars, contentVars, importVars>>

\* fs.writeFile(cachePath, thumbnailData) up to its first await: null data
\* is rejected before the file is touched, else the file is opened and
\* truncated
Open(p) ==
    /\ racePc[p].at = "open"
    /\ IF raceData[p] = "null" \/ OpenThrows(thumbFile.exists)
       THEN /\ racePc' = [racePc EXCEPT ![p] = At("failed")]
            /\ UNCHANGED thumbFile
       ELSE /\ racePc' = [racePc EXCEPT ![p] = [at |-> "write", n |-> 1]]
            /\ thumbFile' = [exists |-> TRUE, chunks |-> {}]
    /\ UNCHANGED <<raceAdapter, source, raceData>>
    /\ UNCHANGED <<callVars, promptVars, contentVars, importVars>>

\* writeFile writes its next chunk at that chunk's offset; after the last
\* one the call goes on to its prompt
WriteChunk(p) ==
    /\ racePc[p].at = "write"
    /\ thumbFile' = [thumbFile EXCEPT !.chunks = @ \cup {racePc[p].n}]
    /\ racePc' = [racePc EXCEPT ![p] = IF racePc[p].n = MaxChunks THEN At("proceeds")
                                       ELSE [at |-> "write", n |-> racePc[p].n + 1]]
    /\ UNCHANGED <<raceAdapter, source, raceData>>
    /\ UNCHANGED <<callVars, promptVars, contentVars, importVars>>

RaceNext ==
    \E p \in Procs : Access(p) \/ Fetch(p) \/ Mkdir(p) \/ Open(p) \/ WriteChunk(p)

RaceSpec == RaceInit /\ [][RaceNext]_vars

(***************************************************************************)
(* The document content: truncation, the request, the truncated flag of    *)
(* the result.  A text is the sequence of its characters, numbered.        *)
(***************************************************************************)
\* the fallback of process.env.CONTENT_MAX_LENGTH || 4000, in units of 1000
DefaultMaxLength == 4

\* process.env.CONTENT_MAX_LENGTH: not set, empty, or a string
ContentMaxLengths == {"unset", "", "0", "2", "5", "-1", "abc"}

\* the number a string is converted to where it is compared or used as an
\* index; a string that is no numeral gives NaN
ToNumber(str) ==
    CASE str = "" -> [nan |-> FALSE, n |-> 0]
      [] str = "0" -> [nan |-> FALSE, n |-> 0]
      [] str = "2" -> [nan |-> FALSE, n |-> 2]
      [] str = "5" -> [nan |-> FALSE, n |-> 5]
      [] str = "-1" -> [nan |-> FALSE, n |-> -1]
      [] OTHER -> [nan |-> TRUE, n |-> 0]

\* maxLength of _truncateContent: the setting when it is a non-empty
\* string (a truthy value), else the default
MaxLengthOf(setting) ==
    IF setting \in {"unset", ""} THEN [nan |-> FALSE, n |-> DefaultMaxLength]
    ELSE ToNumber(setting)

\* a truncation that cuts one character too late
TruncateContentOffByOne(content, setting) ==
    LET m == MaxLengthOf(setting)
    IN IF ~m.nan /\ Len(content) > m.n
       THEN SubSeq(content, 1, Max({0, Min({m.n + 1, Len(content)})}))
       ELSE content

\* OllamaService._truncateContent: a comparison with NaN is false;
\* substring clamps its end to 0..length
TruncateContent(content, setting) ==
    LET m == MaxLengthOf(setting)
    IN IF ~m.nan /\ Len(content) > m.n
       THEN SubSeq(content, 1, Max({0, Min({m.n, Len(content)})}))
       ELSE content

\* JSON.stringify of a string: the string between quotes (0 is the quote)
StringifyContent(content) == <<0>> \o content \o <<0>>

\* the calls: Ollama under a CONTENT_MAX_LENGTH setting, the custom adapter
\* with the tokens its prompt leaves available
ContentCalls ==
    {[adapter |-> "ollama", entry |-> e, content |-> Chars(n), maxLength |-> m,
      availableTokens |-> 0] :
        e \in {"analyzeDocument", "analyzePlayground"}, n \in {0, 1, 3, 5, 9},
        m \in ContentMaxLengths}
    \cup {[adapter |-> "custom", entry |-> e, content |-> Chars(n), maxLength |-> "unset",
           availableTokens |-> a] :
            e \in {"analyzeDocument", "analyzePlayground"}, n \in {0, 1, 3, 5, 9},
            a \in {-1, 0, 1, 2}}

\* the catch block's result: no truncated field
ContentError == [kind |-> "error", truncated |-> JUndef]

\* The call up to its request.  Ollama analyzeDocument truncates by
\* characters and sends the stringified content; Ollama analyzePlayground
\* sends the stringified content as it came, after the prompt (-1);
\* the custom analyzeDocument throws when no token is available and else
\* truncates to the available tokens; the custom analyzePlayground
\* truncates without that test.
SendContent(c) ==
    /\ cpc = "idle"
    /\ contentCall' = c
    /\ IF c.adapter = "custom" /\ c.entry = "analyzeDocument" /\ c.availableTokens <= 0
       THEN /\ cpc' = "returned"
            /\ contentResult' = ContentError
            /\ UNCHANGED <<truncatedContent, userMessage>>
       ELSE /\ cpc' = "sent"
            /\ truncatedContent' =
                  IF c.adapter = "custom" THEN TruncateToTokenLimit(c.content, c.availableTokens)
                  ELSE IF c.entry = "analyzeDocument" THEN TruncateContent(c.content, c.maxLength)
                  ELSE c.content
            /\ userMessage' =
                  IF c.adapter = "custom" THEN truncatedContent'
                  ELSE IF c.entry = "analyzeDocument" THEN StringifyContent(truncatedContent')
                  ELSE <<-1>> \o StringifyContent(truncatedContent')
            /\ UNCHANGED contentResult
    /\ UNCHANGED <<callVars, promptVars, raceVars, importVars>>

\* The backend answers and the call returns: the success result of the
\* adapter, or the catch block's result when the answer cannot be used.
\* Ollama returns truncated: false; the custom adapter compares the lengths.
ReturnContentResult(usable) ==
    /\ cpc = "sent"
    /\ cpc' = "returned"
    /\ contentResult' =
          IF ~usable THEN ContentError
          ELSE [kind |-> "success",
                truncated |-> IF contentCall.adapter = "ollama" THEN JBool(FALSE)
                              ELSE JBool(Len(truncatedContent) < Len(contentCall.content))]
    /\ UNCHANGED <<contentCall, truncatedContent, userMessage>>
    /\ UNCHANGED <<callVars, promptVars, raceVars, importVars>>

\* the caller has the result; the next call may come
ForgetContent ==
    /\ cpc = "returned"
    /\ contentCall' = NoContentCall
    /\ cpc' = "idle"
    /\ truncatedContent' = <<>>
    /\ userMessage' = <<>>
    /\ contentResult' = [kind |-> "none", truncated |-> JUndef]
    /\ UNCHANGED <<callVars, promptVars, raceVars, importVars>>

ContentInit ==
    /\ aiProvider = "custom"
    /\ CallQuiet /\ PromptQuiet /\ RaceQuiet /\ ContentQuiet /\ ImportQuiet

ContentNext ==
    \/ \E c \in ContentCalls : SendContent(c)
    \/ \E usable \in BOOLEAN : ReturnContentResult(usable)
    \/ ForgetContent

ContentSpec == ContentInit /\ [][ContentNext]_vars

(***************************************************************************)
(* The import script (src/import-tags-and-types.sh): the shell version and *)
(* the JavaScript version that follows it in the file                      *)
(***************************************************************************)
\* the two lists of the script, cut to two names each
ImportLists ==
    [types |-> <<"Invoice", "Receipt">>, tags |-> <<"Appliance", "Electronics">>]

\* a script that gives up at the first response that is neither a creation
\* nor an "already exists"
StopOnError(code) == code \in {200, 201, 400}

\* whether the loop goes on after a response: neither version leaves its
\* loop, whatever the response (there is no set -e, and the JavaScript
\* catch swallows the error)
ContinueAfter(code) == TRUE

\* the line printed for a response; code 0 is a request without response.
\* The shell version tests the code for 201 and 400; the JavaScript
\* version prints "created" for every response axios resolves (2xx).
PrintedLine(version, code) ==
    IF code = 201 \/ (version = "js" /\ code = 200) THEN "created"
    ELSE IF code = 400 THEN "exists"
    ELSE "error"

\* the credential check at the start of the script
CheckCredentials ==
    /\ ipc = "start"
    /\ IF importEnv.url /\ importEnv.token
       THEN ipc' = "types" /\ UNCHANGED exitStatus
       ELSE ipc' = "exit" /\ exitStatus' = 1
    /\ UNCHANGED <<importEnv, next, sent, printed>>
    /\ UNCHANGED <<callVars, promptVars, raceVars, contentVars>>

\* one turn of a loop: the create request for the next name, the response
\* with the given code, the printed line; after the last document type the
\* tags follow, after the last tag the script ends
CreateItem(code) ==
    /\ ipc \in {"types", "tags"}
    /\ sent' = Append(sent, <<ipc, ImportLists[ipc][next]>>)
    /\ printed' = Append(printed, PrintedLine(importEnv.version, code))
    /\ IF ~ContinueAfter(code)
       THEN ipc' = "exit" /\ exitStatus' = 1 /\ UNCHANGED next
       ELSE IF next < Len(ImportLists[ipc])
            THEN next' = next + 1 /\ UNCHANGED <<ipc, exitStatus>>
            ELSE IF ipc = "types"
                 THEN ipc' = "tags" /\ next' = 1 /\ UNCHANGED exitStatus
                 ELSE ipc' = "exit" /\ exitStatus' = 0 /\ UNCHANGED next
    /\ UNCHANGED importEnv
    /\ UNCHANGED <<callVars, promptVars, raceVars, contentVars>>

\* the script is started, in either version, with or without credentials
ImportInit ==
    /\ aiProvider = "custom"
    /\ CallQuiet /\ PromptQuiet /\ RaceQuiet /\ ContentQuiet
    /\ importEnv \in [version : {"shell", "js"}, url : BOOLEAN, token : BOOLEAN]
    /\ ipc = "start"
    /\ next = 1
    /\ sent = <<>>
    /\ printed = <<>>
    /\ exitStatus = -1

ImportNext ==
    \/ CheckCredentials
    \/ \E code \in {0, 200, 201, 400, 500} : CreateItem(code)

\* every request is answered or fails, so the script always takes its next
\* step
ImportSpec == ImportInit /\ [][ImportNext]_vars /\ WF_vars(ImportNext)
(***************************************************************************)
(* Properties                                                              *)
(***************************************************************************)
\* an analysis call has returned
Done == pc = "done" /\ call.entry \in {"analyzeDocument", "analyzePlayground"}

\* the tags of a document, <<>> when it has no tags array
TagsOf(doc) == IF IsArray(Prop(doc, "tags")) THEN Prop(doc, "tags").a ELSE <<>>

\* the text the backend answered with, <<>> when it did not answer with text
AnswerText ==
    IF answer.kind # "data" THEN <<>>
    ELSE IF call.adapter = "ollama"
         THEN (IF answer.response.t = "text" THEN answer.response.x ELSE <<>>)
         ELSE (IF answer.content.t = "text" THEN answer.content.x ELSE <<>>)

\* two objects with the same properties and the same value for each
SameObject(a, b) ==
    /\ a.t = "obj"
    /\ b.t = "obj"
    /\ {a.p[i].k : i \in 1..Len(a.p)} = {b.p[i].k : i \in 1..Len(b.p)}
    /\ \A i \in 1..Len(a.p) : Prop(b, a.p[i].k) = a.p[i].v

\* C1: analyzeDocument and analyzePlayground never raise to the caller, and
\* every failure at any step (client, thumbnail caching, prompt assembly,
\* backend call, parsing, logging) ends in a result whose error is set and
\* whose document is the degraded {tags: [], correspondent: null}.
C1_EveryFailureReported ==
    Done => /\ ~raised
            /\ failure # "none" => result.error # JUndef /\ result.document = Degraded

\* C2: in every result returned, on the success path and on every error
\* path, whatever the backend answered, document.tags is an array.
C2_TagsIsArray == Done => IsArray(Prop(result.document, "tags"))

\* C2 witness: the backend answered JSON whose tags is a string, and the
\* call returned without error a document whose tags is the empty array.
C2_Witness ==
    /\ Done
    /\ call.adapter = "ollama"
    /\ AnswerText = JsonStringify(JObj(<<[k |-> "tags", v |-> JStr("Dishwasher")],
                                        [k |-> "correspondent", v |-> JNum("7")]>>))
    /\ result.error = JUndef
    /\ Prop(result.document, "tags") = JArr(<<>>)

\* C3: whenever analyzeDocument is called with restrictToExistingTags =
\* true, every tag of the returned document is in the supplied allow-list,
\* in every adapter.
C3_RestrictedTagsInAllowList ==
    (/\ Done
     /\ call.entry = "analyzeDocument"
     /\ call.options.restrictToExistingTags = JBool(TRUE))
    => \A i \in 1..Len(TagsOf(result.document)) :
          Includes(call.existingTags, TagsOf(result.document)[i])

RECURSIVE KeepAllowed(_, _)
\* the tags that occur in the allow-list, in their order, duplicates kept
KeepAllowed(tags, allowed) ==
    IF tags = <<>> THEN <<>>
    ELSE (IF Head(tags).t = "str" /\ Head(tags).s \in allowed THEN <<Head(tags)>> ELSE <<>>)
         \o KeepAllowed(Tail(tags), allowed)

\* the Ollama analyzeDocument returned a document without error
OllamaDocumentReturned ==
    /\ Done
    /\ call.adapter = "ollama"
    /\ call.entry = "analyzeDocument"
    /\ result.error = JUndef

\* C4: with restrictToExistingTags true and a non-empty allow-list, the
\* tags returned by the Ollama adapter are exactly the normalized tags that
\* occur in the allow-list, in their original order, duplicates kept.
C4_EnforcedTagsExact ==
    (/\ OllamaDocumentReturned
     /\ call.options.restrictToExistingTags = JBool(TRUE)
     /\ Len(call.existingTags) > 0)
    => TagsOf(result.document) =
          KeepAllowed(TagsOf(normalized),
                      {call.existingTags[i] : i \in 1..Len(call.existingTags)})

\* C4 witness (Scenario A): allow-list [Appliance, Electronics], the model
\* returned [Appliance, Dishwasher], the call returned [Appliance].
C4_Witness ==
    /\ OllamaDocumentReturned
    /\ call.options.restrictToExistingTags = JBool(TRUE)
    /\ call.existingTags = <<"Appliance", "Electronics">>
    /\ TagsOf(normalized) = <<JStr("Appliance"), JStr("Dishwasher")>>
    /\ TagsOf(result.document) = <<JStr("Appliance")>>

\* C5: with restrictToExistingDocumentTypes true and a non-empty allow-list,
\* the document_type of the document analyzeDocument returns is null (or
\* absent) or a member of the allow-list.
C5_DocumentTypeInAllowList ==
    (/\ Done
     /\ call.entry = "analyzeDocument"
     /\ result.error = JUndef
     /\ call.options.restrictToExistingDocumentTypes = JBool(TRUE)
     /\ Len(call.existingDocumentTypesList) > 0)
    => \/ Prop(result.document, "document_type") \in {JNull, JUndef}
       \/ Includes(call.existingDocumentTypesList, Prop(result.document, "document_type"))

\* C6: enforcing the restrictions on an already enforced document changes
\* nothing.
C6_EnforceIdempotent ==
    OllamaDocumentReturned
    => Enforce(result.document, call.options, call.existingTags,
               call.existingDocumentTypesList) = result.document

\* C6 witness: both restrictions were on and the enforcement dropped a tag
\* and reset the document type.
C6_Witness ==
    /\ OllamaDocumentReturned
    /\ call.options.restrictToExistingTags = JBool(TRUE)
    /\ call.options.restrictToExistingDocumentTypes = JBool(TRUE)
    /\ Len(TagsOf(result.document)) < Len(TagsOf(normalized))
    /\ Prop(normalized, "document_type") = JStr("Manual")
    /\ Prop(result.document, "document_type") = JNull

AllFlagsFalse ==
    /\ call.options.restrictToExistingTags = JBool(FALSE)
    /\ call.options.restrictToExistingCorrespondents = JBool(FALSE)
    /\ call.options.restrictToExistingDocumentTypes = JBool(FALSE)

\* C7: with all three restriction flags false, the document analyzeDocument
\* returns is the normalized result, unchanged.
C7_NoFlagsNoChange ==
    (Done /\ call.entry = "analyzeDocument" /\ result.error = JUndef /\ AllFlagsFalse)
    => result.document = normalized

\* C7 witness: flags false, allow-lists supplied, and the returned document
\* carries a tag and a document type that are in neither list.
C7_Witness ==
    /\ OllamaDocumentReturned
    /\ AllFlagsFalse
    /\ call.existingTags = <<"Appliance", "Electronics">>
    /\ call.existingDocumentTypesList = <<"Invoice">>
    /\ \E i \in 1..Len(TagsOf(result.document)) :
          TagsOf(result.document)[i] = JStr("Dishwasher")
    /\ Prop(result.document, "document_type") = JStr("Manual")

\* C8: the correspondent is never filtered: the returned correspondent is
\* the normalized one, whatever restrictToExistingCorrespondents and the
\* correspondent allow-list are; enforcement changes only tags and
\* document_type.
C8_CorrespondentUntouched ==
    (Done /\ call.entry = "analyzeDocument" /\ result.error = JUndef)
    => \A key \in {"correspondent", "title", "document_date", "language", "custom_fields"} :
          Prop(result.document, key) = Prop(normalized, key)

\* C8 witness: correspondents restricted to [Acme], document types
\* restricted and enforced, and the returned correspondent is "Other".
C8_Witness ==
    /\ OllamaDocumentReturned
    /\ call.options.restrictToExistingCorrespondents = JBool(TRUE)
    /\ call.existingCorrespondentList = <<"Acme">>
    /\ Prop(result.document, "correspondent") = JStr("Other")

\* the well-formed results with their JSON encoding wrapped in code fences
FencedEncodings ==
    {[original |-> r, text |-> Fenced(JsonStringify(r))] :
        r \in FieldVariants \cup {BaseResult(<<>>)}}

\* C9: when the backend answers with the fenced JSON encoding of a
\* well-formed AnalysisResult, normalization reproduces that result
\* exactly, in every adapter.
C9_FencedRoundTrip ==
    Done => \A e \in FencedEncodings :
               AnswerText = e.text => SameObject(normalized, e.original)

\* C10: when the model returns non-empty text with no {...} span that does
\* not parse, analyzeDocument returns the degraded document together with a
\* non-null error, in every adapter.
C10_GarbageGivesError ==
    (Done /\ call.entry = "analyzeDocument" /\ AnswerText = GarbageText)
    => result.document = Degraded /\ result.error # JUndef

\* the response tokens the adapter in use sets aside
ReservedTokens == IF call.adapter = "ollama" THEN ExpectedResponseTokens ELSE ResponseTokens

\* C11: in every analysis entry point of every adapter, a call whose prompt
\* token estimate plus the reserved response tokens reaches the token limit
\* returns a budget-exceeded error and has sent no request to the backend.
C11_BudgetCheckedBeforeRequest ==
    (Done /\ promptTokens > 0 /\ promptTokens + ReservedTokens >= TokenLimit)
    => /\ failure = "budget"
       /\ result.error # JUndef
       /\ requests = 0

\* the fields of the fixed result shape
ResultFields ==
    {"title", "correspondent", "tags", "document_type", "document_date", "language",
     "custom_fields"}

\* the normalizer parsed the model's output on one of its paths
ParsedSuccessfully ==
    /\ Done
    /\ normalized # JUndef
    /\ path \in {"direct", "extracted", "sanitized", "object"}

\* C12: whenever the model's output is parsed successfully on any path
\* (direct, after extraction of the {...} span, after sanitizing, or object
\* response), the normalized document carries all seven fields of the fixed
\* shape.
C12_FixedShape ==
    ParsedSuccessfully
    => {normalized.p[i].k : i \in 1..Len(normalized.p)} = ResultFields

\* what the spec's coercion makes of a scalar field: a string stays, any
\* other or absent value becomes null
CoercedScalar(v) == IF v.t = "str" THEN v ELSE JNull

\* what the spec's coercion makes of tags: an array stays, anything else
\* becomes []
CoercedTags(v) == IF v.t = "arr" THEN v ELSE JArr(<<>>)

\* the JSON objects a backend may answer with, with their encoding
ObjectEncodings ==
    {[original |-> v, text |-> JsonStringify(v)] :
        v \in {o \in WellFormedResults \cup OffSchemaValues : o.t = "obj"}}

\* C13: for every parsed JSON object, the normalized tags is the parsed
\* tags when that is an array and [] otherwise, and each of correspondent,
\* title, document_type, document_date, language is the parsed value when
\* that is a string and null when it is absent or not a string.
C13_TypeCoercion ==
    ParsedSuccessfully
    => \A e \in ObjectEncodings :
          AnswerText = e.text
          => /\ Prop(normalized, "tags") = CoercedTags(Prop(e.original, "tags"))
             /\ \A key \in ResultFields \ {"tags", "custom_fields"} :
                   Prop(normalized, key) = CoercedScalar(Prop(e.original, key))

\* C14: when the backend returns valid message content but no usage
\* object, the call succeeds with the parsed document and zero metrics.
C14_MissingUsageIsNotAnError ==
    (/\ Done
     /\ call.adapter = "custom"
     /\ answer.kind = "data"
     /\ ~answer.usage
     /\ AnswerText = JsonStringify(BaseResult(ScenarioTags)))
    => /\ result.error = JUndef
       /\ result.metrics = "zero"
       /\ result.document = BaseResult(ScenarioTags)

\* C15: while the custom adapter has no client (the provider is not
\* 'custom'), analyzeDocument and analyzePlayground return an error result,
\* checkStatus returns status 'error' and generateText raises, each without
\* a request to the backend; and a client, once constructed, is never
\* constructed again.
C15_ClientUnavailable ==
    /\ constructions <= 1
    /\ (client = "null") = (constructions = 0)
    /\ (pc = "done" /\ call.adapter = "custom" /\ client = "null")
       => /\ requests = 0
          /\ failure = "client"
          /\ call.entry \in {"analyzeDocument", "analyzePlayground"}
             => result.error # JUndef /\ result.document = Degraded
          /\ call.entry = "checkStatus" => status = "error"
          /\ call.entry = "generateText" => raised

\* C15 witness: generateText was called under the Ollama provider and
\* raised without a request.
C15_Witness ==
    /\ pc = "done"
    /\ aiProvider = "ollama"
    /\ call.entry = "generateText"
    /\ client = "null"
    /\ requests = 0
    /\ raised

\* C16: when the thumbnail is not cached and the fetch throws or returns no
\* image, analyzeDocument still builds the prompt and calls the backend:
\* the call does not end in its thumbnail step, in any adapter.
C16_ThumbnailFailureNotFatal ==
    (Done /\ thumbnail \in {"threw", "absent"})
    => failure # "thumbnail"

\* C17: a call that finds its document's thumbnail in the cache fetches
\* nothing and leaves the cache as it is, and over any series of calls the
\* thumbnail of a document is fetched and stored at most once.
C17_ReadThroughCache ==
    [][/\ (pc = "thumbnail" /\ call.id \in cache)
          => thumbnail' = "hit" /\ cache' = cache /\ stores' = stores
       /\ \A d \in DocIds : stores'[d] <= 1]_vars

\* C17 witness: an earlier call stored the thumbnail and the present call
\* has returned after a cache hit.
C17_Witness ==
    /\ Done
    /\ thumbnail = "hit"
    /\ call.id \in cache
    /\ stores[call.id] = 1

\* C18: every analyzeDocument or analyzePlayground call sends at most one
\* request to the backend; a call that has its answer, good or bad, sends
\* no further request.
C18_NoRetry ==
    [][/\ requests' <= 1
       /\ (pc = "backend" /\ pc' # "backend") => requests' = requests /\ pc' = "done"]_vars

\* C18 witness: the single request was rejected and the call returned its
\* degraded result.
C18_Witness ==
    /\ Done
    /\ answer.kind = "reject"
    /\ requests = 1
    /\ failure = "backend"
    /\ result.document = Degraded

\* C19: an analysis call leaves config.mustHavePrompt as it found it, and
\* the system prompt it assembles renders the custom-field specification
\* that is current when the call is made, whatever calls came before.
C19_ConfigurationUnchanged ==
    [][(ppc = "idle" /\ ppc' = "built")
       => /\ mustHavePrompt' = mustHavePrompt
          /\ \E i \in 1..Len(systemPrompt') :
                systemPrompt'[i] = CustomFieldsStr(customFields)]_vars

\* what the thumbnail step of a call made alone on a missing cache file
\* ends in
AloneOutcome ==
    IF source = "image" \/ (source = "null" /\ raceAdapter = "ollama")
    THEN "proceeds" ELSE "failed"

\* both calls are through their thumbnail step
BothThrough == \A p \in Procs : racePc[p].at \in {"proceeds", "failed"}

\* C20: when two calls for the same document race on the missing thumbnail
\* file, then under every interleaving each call ends as it would alone, and
\* the cache file ends holding the complete thumbnail.
C20_BenignDuplicateWrite ==
    BothThrough
    => /\ \A p \in Procs : racePc[p].at = AloneOutcome
       /\ source = "image" => thumbFile = [exists |-> TRUE, chunks |-> 1..MaxChunks]

\* C20 witness: both calls missed the cache, both fetched the image and
\* wrote it, and the file is complete.
C20_Witness ==
    /\ BothThrough
    /\ \A p \in Procs : raceData[p] = "image" /\ racePc[p].at = "proceeds"
    /\ thumbFile = [exists |-> TRUE, chunks |-> 1..MaxChunks]

\* a default system prompt was assembled: no custom prompt override
DefaultBuilt == ppc = "built" /\ ~Truthy(promptCall.customPrompt)

\* the external data as the spec wants it in the prompt: cut down to the
\* ceiling when its estimate exceeds it, unchanged otherwise
ExpectedExternalBody(x) ==
    IF (Len(x) + 3) \div 4 > ExternalTokenCeiling
    THEN SubSeq(x, 1, 4 * ExternalTokenCeiling) ELSE x

\* C21: when options.externalApiData is supplied and no custom prompt is
\* used, the system prompt contains a labeled additional-context section
\* whose body is the external data itself, cut down to the ceiling when its
\* estimate exceeds it and unchanged otherwise.
C21_ExternalContextSection ==
    (DefaultBuilt /\ Truthy(promptEnv.externalApiData))
    => \E i \in 1..Len(systemPrompt) :
          /\ systemPrompt[i].k = "external"
          /\ systemPrompt[i].body = JText(ExpectedExternalBody(promptEnv.externalApiData.x))

\* C22: with a custom prompt override the system prompt is the custom
\* prompt followed by the must-have template whose %CUSTOMFIELDS%
\* placeholder is replaced by the block rendered from the current
\* custom-field specification, and nothing of the default assembly.
C22_CustomPromptOverride ==
    (ppc = "built" /\ Truthy(promptCall.customPrompt))
    => systemPrompt = <<Seg("custom prompt")>>
                      \o ReplaceCustomFields(MustHaveTemplate, CustomFieldsStr(customFields))

\* the restriction flag in force for a field: the option, or the
\* configuration when the option is undefined
FlagInForce(field) == HasRestriction(promptCall.options[field], promptEnv.cfg[field])

\* the fields with their flag, their allow-list and the kind of their section
RestrictedFields ==
    {<<"restrictToExistingTags", promptCall.existingTags, "tags">>,
     <<"restrictToExistingCorrespondents", promptCall.existingCorrespondentList, "correspondents">>,
     <<"restrictToExistingDocumentTypes", promptCall.existingDocumentTypesList, "document_types">>}

\* the section of kind kind listing names stands between the two
\* restriction markers of the system prompt
SectionPresent(kind, names) ==
    \E i, j, l \in 1..Len(systemPrompt) :
        /\ i < j /\ j < l
        /\ systemPrompt[i] = Seg("restrictions")
        /\ systemPrompt[j] = Section(kind, names)
        /\ systemPrompt[l] = Seg("end restrictions")

\* C23: without a custom prompt, for every field whose restriction flag is
\* true and whose allow-list is non-empty, the restriction section listing
\* every allow-list name stands between the restriction markers of the
\* system prompt that is sent: no later assembly step removed it.
C23_RestrictionSectionKept ==
    DefaultBuilt
    => \A f \in RestrictedFields :
          (FlagInForce(f[1]) /\ f[2] # <<>>) => SectionPresent(f[3], f[2])

\* a restricted prompt went through every later step: the must-have
\* template, the substitution of a legacy placeholder or the external context
C23_Witness ==
    /\ DefaultBuilt
    /\ FlagInForce("restrictToExistingTags") /\ promptCall.existingTags # <<>>
    /\ SectionPresent("tags", promptCall.existingTags)
    /\ Truthy(promptEnv.externalApiData)
    /\ \E i \in 1..Len(systemPrompt) : systemPrompt[i] = Seg("must have")

\* the non-binding reference listing is in the system prompt
ReferencePresent == \E i \in 1..Len(systemPrompt) : systemPrompt[i].k = "preexisting"

\* some mandatory restriction section is in the system prompt
SomeSectionPresent ==
    \E i \in 1..Len(systemPrompt) :
        systemPrompt[i].k \in {"tags", "correspondents", "document_types"}

OutsiderResult ==
    WithField(BaseResult(<<JStr("Dishwasher")>>), "document_type", JStr("Manual"))

\* C28: for tags and document types, the Ollama adapter filters the result
\* of a call whenever the system prompt it sent for that call held the
\* mandatory restriction section of the field: a value outside the
\* allow-list does not survive the enforcement step.
C28_PromptAndEnforcementAgree ==
    (DefaultBuilt /\ promptCall.adapter = "ollama")
    => LET enforced == Enforce(OutsiderResult, promptCall.options, promptCall.existingTags,
                               promptCall.existingDocumentTypesList)
       IN /\ SectionPresent("tags", promptCall.existingTags)
             => TagsOf(enforced) = <<>>
          /\ SectionPresent("document_types", promptCall.existingDocumentTypesList)
             => Prop(enforced, "document_type") = JNull

\* the character budget of an Ollama analyzeDocument call, when
\* CONTENT_MAX_LENGTH gives one that is zero or more
CharBudget == MaxLengthOf(contentCall.maxLength)

C26_EmptyBudgetIsFatal ==
    (cpc = "sent" /\ Len(contentCall.content) > 0) => Len(truncatedContent) > 0

\* C29: every returned result carries a boolean truncated field, and in a
\* successful result it is true exactly when the content sent is shorter
\* than the content the caller passed.
C29_TruncatedFlag ==
    cpc = "returned"
    => /\ contentResult.truncated.t = "bool"
       /\ contentResult.kind = "success"
          => (contentResult.truncated.b
              <=> Len(truncatedContent) < Len(contentCall.content))

\* the create requests of a complete run, in order
AllRequests ==
    [i \in 1..Len(ImportLists.types) |-> <<"types", ImportLists.types[i]>>]
    \o [i \in 1..Len(ImportLists.tags) |-> <<"tags", ImportLists.tags[i]>>]

\* C27: the import script sends one create request for every document type
\* and then for every tag, in list order; an "already exists" or any other
\* error response stops nothing, and the run ends after the last tag;
\* without the API URL or the token it exits with status 1 before any
\* request.
C27_ImportRunsToTheEnd ==
    /\ [](/\ sent = SubSeq(AllRequests, 1, Len(sent))
          /\ (importEnv.url /\ importEnv.token)
             => /\ exitStatus \in {-1, 0}
                /\ exitStatus = 0 <=> (ipc = "exit" /\ sent = AllRequests)
          /\ ~(importEnv.url /\ importEnv.token)
             => /\ sent = <<>>
                /\ ipc = "exit" => exitStatus = 1)
    /\ <>(ipc = "exit")

\* a run that met an "already exists" and an error before its last item and
\* still ended after the last tag
C27_Witness ==
    /\ ipc = "exit" /\ exitStatus = 0
    /\ sent = AllRequests
    /\ printed[1] = "exists" /\ printed[2] = "error" /\ printed[4] = "created"

\* C30: a bad custom-field configuration never prevents analysis: whatever
\* CUSTOM_FIELDS holds, no analysis call ends in an error result because
\* its prompt assembly threw (the one cause of a throw in the assembly is
\* the custom-field template).
C30_BadCustomFieldsNotFatal ==
    Done => ~(failure = "prompt" /\ result.error # JUndef)
====
